---- MODULE Spec2Model ----
(***************************************************************************)
(* The adaptive velocity controller of code/velocity_controller.py: the    *)
(* module-level state of the node and its five subscriber callbacks.       *)
(*                                                                         *)
(* Numbers.  The program computes in doubles; the model keeps every        *)
(* quantity as an integer in a fixed unit:                                 *)
(*   velocity, speed limits      1/1000 m/s                                *)
(*   acceleration limit          1/1000 m/s^2                              *)
(*   position                    1/1000 m                                  *)
(*   time stamps, dt, delta_t    1 s   (header.stamp.nsecs is 0)           *)
(*   joystick axis               1/1000                                    *)
(*   roughness statistic         1/10                                      *)
(*   vertical acceleration       1/100 m/s^2                               *)
(*   i_error                     1/1000 m        d_error   1/1000 m/s^2    *)
(* Sums, differences and products of these are exact.  The two quotients   *)
(* of the program that leave the grid (d_error and the PID trim            *)
(* ki*i_error + kd*d_error) are truncated toward zero, and the comparisons *)
(* against a quotient or a square root are made on the cross-multiplied    *)
(* integers, which is the same comparison over the reals.                  *)
(***************************************************************************)
EXTENDS Integers, Sequences, FiniteSets, Bags, TLC

(***************************************************************************)
(* Program constants.                                                      *)
(***************************************************************************)
DefaultMaxXVel     == 2000   \* default_dict["max_x_vel"] = 2.0
DefaultMaxAccel    == 250    \* default_dict["max_accel"] = 0.25
UnknownSurface     == -1     \* the key of the unclassified-surface entry
AxisGain           == -2     \* data.axes[1] * -2
BumpySlowVelocity  == 200    \* 0.2, the cap while upcoming_bumpiness
FatalVelocity      == 2000   \* previous_x_velocity > 2 or < -2
LookAheadDistance  == 450    \* lidar_look_ahead_distance_m = .45
VibrationThreshold == 45     \* vibration_threshold = 0.45
RatchetStep        == 150    \* - .15
KiDen              == 1000   \* ki = 0.001
KdDen              == 100000 \* kd = 0.00001
Kp                 == 1      \* kp = 1

default_dict == [max_x_vel |-> DefaultMaxXVel, max_accel |-> DefaultMaxAccel]

(***************************************************************************)
(* Bounds of the model.                                                    *)
(***************************************************************************)
WindowLen    == 2      \* samples in one IMU window (the program's window holds 20)
MaxRatchets  == 2      \* vibration windows the environment lets breach the threshold

(***************************************************************************)
(* Arithmetic helpers.                                                     *)
(***************************************************************************)
Abs(x)    == IF x < 0 THEN -x ELSE x
Min(x, y) == IF x <= y THEN x ELSE y
\* x / y truncated toward zero (y > 0)
Quot(x, y) == IF x >= 0 THEN x \div y ELSE -((-x) \div y)

RECURSIVE BagSum(_, _)
\* the sum of Weight(v) over the samples of bag b, with multiplicity
BagSum(b, sq) ==
    IF DOMAIN b = {} THEN 0
    ELSE LET v == CHOOSE x \in DOMAIN b : TRUE
             rest == [x \in DOMAIN b \ {v} |-> b[x]]
         IN  b[v] * (IF sq THEN v * v ELSE v) + BagSum(rest, sq)

\* np.std(accels) > vibration_threshold, for a window given as a bag:
\* sqrt(sum(x^2)/n - (sum(x)/n)^2) > t  <=>  n*sum(x^2) - sum(x)^2 > (t*n)^2
StdExceeds(b, t) ==
    LET n == BagCardinality(b)
    IN  n * BagSum(b, TRUE) - BagSum(b, FALSE) * BagSum(b, FALSE) > (t * n) * (t * n)

(***************************************************************************)
(* State: the module-level variables of the program, the message published *)
(* on /cmd_vel by the handler that ran last, and the path that handler took.*)
(***************************************************************************)
VARIABLES
    surface_data,        \* id -> [max_x_vel, max_accel]
    current_surface,
    previous_surface,
    previous_bumpiness,
    current_bumpiness,
    upcoming_bumpiness,
    surface_transition,
    start_position,
    accels,              \* the IMU window, as a bag of samples
    previous_stamp,
    previous_x_velocity,
    older_x_velocity,
    previous_error,
    p_error,
    i_error,
    d_error,
    current_x_vel,
    delta_t,
    previous_odometry_reading_time,
    published,           \* what the last handler sent to speed_publisher: <<>> or <<v>>
    outcome,             \* the path the last handler took through its code
    latch_point,         \* <<p>>: position p of the first odometry sample since upcoming_bumpiness was latched
    ratchets,            \* number of vibration windows that reduced a max_x_vel
    surface_frame,       \* surface_callback in progress on its thread: <<>> or [pc, data]
    imu_frame            \* imu_callback between lines 256 and 257: <<>> or [surface, current_max]

registry  == <<surface_data, current_surface, previous_surface>>
bumpiness == <<previous_bumpiness, current_bumpiness>>
flags     == <<upcoming_bumpiness, surface_transition, start_position, latch_point>>
command   == <<previous_stamp, previous_x_velocity, older_x_velocity>>
pid       == <<previous_error, p_error, i_error, d_error>>
odometry  == <<current_x_vel, delta_t, previous_odometry_reading_time>>
frames    == <<surface_frame, imu_frame>>
vars      == <<registry, bumpiness, flags, accels, command, pid, odometry,
               published, outcome, ratchets, frames>>

Init ==
    /\ surface_data = (UnknownSurface :> default_dict)
    /\ current_surface = UnknownSurface
    /\ previous_surface = UnknownSurface
    /\ previous_bumpiness = 0
    /\ current_bumpiness = 0
    /\ upcoming_bumpiness = FALSE
    /\ surface_transition = FALSE
    /\ start_position = 0
    /\ accels = EmptyBag
    /\ previous_stamp = 0
    /\ previous_x_velocity = 0
    /\ older_x_velocity = 0
    /\ previous_error = 0
    /\ p_error = 0
    /\ i_error = 0
    /\ d_error = 0
    /\ current_x_vel = 0
    /\ delta_t = 0
    /\ previous_odometry_reading_time = 0
    /\ published = <<>>
    /\ outcome = "none"
    /\ latch_point = <<>>
    /\ ratchets = 0
    /\ surface_frame = <<>>
    /\ imu_frame = <<>>

(***************************************************************************)
(* surface_callback(data), lines 77-100.                                   *)
(***************************************************************************)
\* slip: the promotion leaves the learned values in the -1 entry too
SurfaceDataAfter_KeepScratch(sd, prev, id) ==
    IF id \notin DOMAIN sd
    THEN IF prev = UnknownSurface
         THEN (id :> sd[UnknownSurface]) @@ sd
         ELSE (id :> default_dict) @@ sd
    ELSE (UnknownSurface :> default_dict) @@ sd

\* slip: a surface that is entered again starts over from the defaults
SurfaceDataAfter_Reinit(sd, prev, id) ==
    IF id \notin DOMAIN sd
    THEN IF prev = UnknownSurface
         THEN (id :> sd[UnknownSurface]) @@ (UnknownSurface :> default_dict) @@ sd
         ELSE (id :> default_dict) @@ sd
    ELSE (id :> default_dict) @@ (UnknownSurface :> default_dict) @@ sd

\* slip: a new id met on classified terrain gets no entry
SurfaceDataAfter_NoCreate(sd, prev, id) ==
    IF id \notin DOMAIN sd
    THEN IF prev = UnknownSurface
         THEN (id :> sd[UnknownSurface]) @@ (UnknownSurface :> default_dict) @@ sd
         ELSE sd
    ELSE (UnknownSurface :> default_dict) @@ sd

\* slip: entering a known surface leaves the -1 entry as it is
SurfaceDataAfter_NoReset(sd, prev, id) ==
    IF id \notin DOMAIN sd
    THEN IF prev = UnknownSurface
         THEN (id :> sd[UnknownSurface]) @@ (UnknownSurface :> default_dict) @@ sd
         ELSE (id :> default_dict) @@ sd
    ELSE sd

\* slip: coming from unclassified terrain, a known surface is promoted over
SurfaceDataAfter_PromoteOver(sd, prev, id) ==
    IF id \notin DOMAIN sd \/ prev = UnknownSurface
    THEN IF prev = UnknownSurface
         THEN (id :> sd[UnknownSurface]) @@ (UnknownSurface :> default_dict) @@ sd
         ELSE (id :> default_dict) @@ sd
    ELSE (UnknownSurface :> default_dict) @@ sd

\* the registry after the handler, given the registry and active id before it
SurfaceDataAfter(sd, prev, id) ==
    IF id \notin DOMAIN sd
    THEN IF prev = UnknownSurface
         THEN (id :> sd[UnknownSurface]) @@ (UnknownSurface :> default_dict) @@ sd
         ELSE (id :> default_dict) @@ sd
    ELSE (UnknownSurface :> default_dict) @@ sd

surface_callback(id) ==
    /\ previous_surface' = current_surface
    /\ current_surface' = id
    /\ surface_data' = SurfaceDataAfter(surface_data, current_surface, id)
    /\ published' = <<>>
    /\ outcome' = IF id \in DOMAIN surface_data THEN "known"
                  ELSE IF current_surface = UnknownSurface THEN "promoted" ELSE "created"
    /\ UNCHANGED <<bumpiness, flags, accels, command, pid, odometry, ratchets, frames>>

(***************************************************************************)
(* bumpiness_callback(data), lines 106-121.                                *)
(***************************************************************************)
\* slip: the comparison is made without the test of previous_bumpiness
Rougher_NoZeroTest(cur, prev) == 4 * cur > 7 * prev

\* current_bumpiness > previous_bumpiness * 1.75 and previous_bumpiness != 0
Rougher(cur, prev)  == 4 * cur > 7 * prev /\ prev # 0
\* current_bumpiness < previous_bumpiness / 1.75 and previous_bumpiness != 0
Smoother(cur, prev) == 7 * cur < 4 * prev /\ prev # 0

bumpiness_callback(value) ==
    /\ previous_bumpiness' = current_bumpiness
    /\ current_bumpiness' = value
    /\ upcoming_bumpiness' = (upcoming_bumpiness \/ Rougher(value, current_bumpiness))
    /\ surface_transition' = (surface_transition \/ Smoother(value, current_bumpiness))
    /\ UNCHANGED latch_point
    /\ published' = <<>>
    /\ outcome' = "bumpiness"
    /\ UNCHANGED <<registry, start_position, accels, command, pid, odometry, ratchets, frames>>

(***************************************************************************)
(* odometry_callback(data), lines 126-162.                                 *)
(***************************************************************************)
\* slip: the window is opened whether or not a flag is latched
StartAfterOpen_NoFlag(pos) ==
    IF start_position = 0 THEN pos ELSE start_position

\* start_position after line 154
StartAfterOpen(pos) ==
    IF (upcoming_bumpiness \/ surface_transition) /\ start_position = 0
    THEN pos ELSE start_position

\* the test of line 159
WindowCloses(pos) ==
    /\ StartAfterOpen(pos) # 0
    /\ Abs(pos - StartAfterOpen(pos)) >= LookAheadDistance

\* where the robot was at the first odometry sample since upcoming_bumpiness was
\* latched, pos being the sample now delivered (a history of the samples, for the
\* properties; the program keeps only start_position)
LatchPoint(pos) == IF latch_point = <<>> THEN pos ELSE latch_point[1]

odometry_callback(vel, stamp, pos) ==
    /\ current_x_vel' = vel
    /\ delta_t' = stamp - previous_odometry_reading_time
    /\ previous_odometry_reading_time' = stamp
    /\ IF WindowCloses(pos)
       THEN /\ upcoming_bumpiness' = FALSE
            /\ surface_transition' = FALSE
            /\ start_position' = 0
       ELSE /\ start_position' = StartAfterOpen(pos)
            /\ UNCHANGED <<upcoming_bumpiness, surface_transition>>
    /\ latch_point' = IF ~upcoming_bumpiness \/ WindowCloses(pos) THEN <<>>
                      ELSE <<LatchPoint(pos)>>
    /\ published' = <<>>
    /\ outcome' = IF WindowCloses(pos) THEN "closed" ELSE "odometry"
    /\ UNCHANGED <<registry, bumpiness, accels, command, pid, ratchets, frames>>

(***************************************************************************)
(* calculate_pid(target_velocity), lines 261-279.                          *)
(***************************************************************************)
PidP(target) == target - current_x_vel
PidI(target) == i_error + PidP(target) * delta_t
PidD(target) == IF delta_t > 0 THEN Quot(PidP(target) - previous_error, delta_t)
                ELSE d_error
\* ki*i_error + kd*d_error, in 1/1000 m/s
PidTrim(target) == Quot((KdDen \div KiDen) * PidI(target) + PidD(target), KdDen)
\* the value returned
PidOutput(target) == Kp * PidP(target) + PidTrim(target) + current_x_vel

(***************************************************************************)
(* joystick_callback(data), lines 167-238.                                 *)
(***************************************************************************)
\* slip: the slow-down is applied before a smoother surface as well
InputMagnitude_CapOnEither(axis) ==
    LET m == Abs(axis * AxisGain)
    IN  IF (upcoming_bumpiness \/ surface_transition) /\ m > BumpySlowVelocity
        THEN BumpySlowVelocity ELSE m

\* lines 185-196: magnitude of the request, after the slow-down before a bumpier surface
InputMagnitude(axis) ==
    LET m == Abs(axis * AxisGain)
    IN  IF upcoming_bumpiness /\ m > BumpySlowVelocity THEN BumpySlowVelocity ELSE m

InputDirection(axis) == IF axis * AxisGain < 0 THEN -1 ELSE 1

\* line 200: the request limited by the active surface's max speed
SurfaceLimited(axis) ==
    Min(surface_data[current_surface].max_x_vel, InputMagnitude(axis)) * InputDirection(axis)

\* lines 218-225: the request limited by the active surface's max acceleration
\* abs(dv/dt) > max_accel  <=>  |dv| > max_accel * |dt| ;  a < 0  <=>  dv, dt of opposite sign
Ramped(axis, dt) ==
    LET max_accel == surface_data[current_surface].max_accel
        dv == SurfaceLimited(axis) - previous_x_velocity
    IN  IF Abs(dv) > max_accel * Abs(dt)
        THEN (IF (dv < 0) # (dt < 0) THEN -max_accel ELSE max_accel) * dt + previous_x_velocity
        ELSE SurfaceLimited(axis)

\* line 207
FatalGuard == previous_x_velocity > FatalVelocity \/ previous_x_velocity < -FatalVelocity

\* slip: the deadman button is not looked at
JoystickPath_NoDeadman(button, stamp) ==
    IF current_surface \notin DOMAIN surface_data THEN "KeyError"
    ELSE IF FatalGuard THEN "AttributeError"
    ELSE IF stamp - previous_stamp = 0 \/ previous_stamp = 0 THEN "hold"
    ELSE "tick"

\* slip: the check of the previous command comes after the hold (lines 211-215)
JoystickPath_GuardAfterHold(button, stamp) ==
    IF button = 0 THEN "deadman"
    ELSE IF current_surface \notin DOMAIN surface_data THEN "KeyError"
    ELSE IF stamp - previous_stamp = 0 \/ previous_stamp = 0 THEN "hold"
    ELSE IF FatalGuard THEN "AttributeError"
    ELSE "tick"

\* slip: a sample with dt = 0, or the first sample, is shaped like any other
JoystickPath_NoHold(button, stamp) ==
    IF button = 0 THEN "deadman"
    ELSE IF current_surface \notin DOMAIN surface_data THEN "KeyError"
    ELSE IF FatalGuard THEN "AttributeError"
    ELSE "tick"

\* the path of one call through lines 182-238
JoystickPath(button, stamp) ==
    IF button = 0 THEN "deadman"                                         \* line 183: return
    ELSE IF current_surface \notin DOMAIN surface_data THEN "KeyError"   \* line 199 raises
    ELSE IF FatalGuard THEN "AttributeError"      \* line 209: sys has no attribute quit
    ELSE IF stamp - previous_stamp = 0 \/ previous_stamp = 0 THEN "hold" \* lines 211-215
    ELSE "tick"                                                          \* lines 217-238

joystick_callback(button, axis, stamp) ==
    LET path   == JoystickPath(button, stamp)
        target == Ramped(axis, stamp - previous_stamp)
    IN  /\ outcome' = path
        /\ published' = IF path = "hold" THEN <<previous_x_velocity>>
                        ELSE IF path = "tick" THEN <<PidOutput(target)>>
                        ELSE <<>>
        /\ previous_stamp' = IF path \in {"hold", "tick"} THEN stamp ELSE previous_stamp
        /\ IF path = "tick"
           THEN /\ p_error' = PidP(target)
                /\ i_error' = PidI(target)
                /\ d_error' = PidD(target)
                /\ previous_error' = PidP(target)
                /\ older_x_velocity' = previous_x_velocity
                /\ previous_x_velocity' = PidOutput(target)
           ELSE UNCHANGED <<previous_x_velocity, older_x_velocity, pid>>
        /\ UNCHANGED <<registry, bumpiness, flags, accels, odometry, ratchets, frames>>

(***************************************************************************)
(* imu_callback(data), lines 240-257.                                      *)
(***************************************************************************)
\* line 255, for the completed window w
VibrationTooHigh(w) ==
    /\ StdExceeds(w, VibrationThreshold)
    /\ Abs(older_x_velocity) < Abs(previous_x_velocity)
    /\ ~surface_transition

\* line 257
RatchetedMax(current_max) == Min(Abs(previous_x_velocity), current_max) - RatchetStep

imu_callback(z) ==
    LET w == accels (+) SetToBag({z})
    IN  /\ IF BagCardinality(w) >= WindowLen
           THEN /\ accels' = EmptyBag
                /\ IF VibrationTooHigh(w)
                   THEN /\ surface_data' = [surface_data EXCEPT ![current_surface].max_x_vel =
                                               RatchetedMax(surface_data[current_surface].max_x_vel)]
                        /\ ratchets' = ratchets + 1
                   ELSE UNCHANGED <<surface_data, ratchets>>
           ELSE /\ accels' = w
                /\ UNCHANGED <<surface_data, ratchets>>
        /\ published' = <<>>
        /\ outcome' = IF BagCardinality(w) >= WindowLen /\ VibrationTooHigh(w)
                      THEN "ratchet" ELSE "imu"
        /\ UNCHANGED <<current_surface, previous_surface, bumpiness, flags, command, pid, odometry,
                       frames>>

(***************************************************************************)
(* The handlers as rospy runs them: listener (lines 285-306) subscribes    *)
(* the five callbacks and takes no lock, and rospy calls the callback of   *)
(* each subscription on that subscription's own thread.  Calls of one      *)
(* callback follow one another; calls of different callbacks interleave    *)
(* between statements.  surface_callback and the two statements of         *)
(* imu_callback that touch the registry are split at those statements.     *)
(***************************************************************************)
\* line 84: previous_surface = current_surface
surface_84(id) ==
    /\ surface_frame = <<>>
    /\ previous_surface' = current_surface
    /\ surface_frame' = [pc |-> 85, data |-> id]
    /\ UNCHANGED <<surface_data, current_surface, bumpiness, flags, accels, command, pid,
                   odometry, published, outcome, ratchets, imu_frame>>

\* line 85: current_surface = data.data
surface_85 ==
    /\ surface_frame # <<>>
    /\ surface_frame.pc = 85
    /\ current_surface' = surface_frame.data
    /\ surface_frame' = [surface_frame EXCEPT !.pc = 88]
    /\ UNCHANGED <<surface_data, previous_surface, bumpiness, flags, accels, command, pid,
                   odometry, published, outcome, ratchets, imu_frame>>

\* lines 88-100 but line 96: the tests, and the first write to surface_data
surface_88 ==
    /\ surface_frame # <<>>
    /\ surface_frame.pc = 88
    /\ IF current_surface \notin DOMAIN surface_data
       THEN IF previous_surface = UnknownSurface
            THEN /\ surface_data' = (current_surface :> surface_data[UnknownSurface]) @@ surface_data
                 /\ surface_frame' = [surface_frame EXCEPT !.pc = 96]
                 /\ UNCHANGED <<published, outcome>>
            ELSE /\ surface_data' = (current_surface :> default_dict) @@ surface_data
                 /\ surface_frame' = <<>>
                 /\ published' = <<>>
                 /\ outcome' = "created"
       ELSE /\ surface_data' = (UnknownSurface :> default_dict) @@ surface_data
            /\ surface_frame' = <<>>
            /\ published' = <<>>
            /\ outcome' = "known"
    /\ UNCHANGED <<current_surface, previous_surface, bumpiness, flags, accels, command, pid,
                   odometry, ratchets, imu_frame>>

\* line 96: surface_data[-1] = default_dict.copy()
surface_96 ==
    /\ surface_frame # <<>>
    /\ surface_frame.pc = 96
    /\ surface_data' = (UnknownSurface :> default_dict) @@ surface_data
    /\ surface_frame' = <<>>
    /\ published' = <<>>
    /\ outcome' = "promoted"
    /\ UNCHANGED <<current_surface, previous_surface, bumpiness, flags, accels, command, pid,
                   odometry, ratchets, imu_frame>>

\* lines 250-256: the sample, the window and the read of the active entry
imu_256(z) ==
    LET w == accels (+) SetToBag({z})
        fires == BagCardinality(w) >= WindowLen /\ VibrationTooHigh(w)
    IN  /\ imu_frame = <<>>
        /\ accels' = IF BagCardinality(w) >= WindowLen THEN EmptyBag ELSE w
        /\ imu_frame' = IF fires /\ current_surface \in DOMAIN surface_data
                        THEN [surface |-> current_surface,
                              current_max |-> surface_data[current_surface].max_x_vel]
                        ELSE <<>>
        /\ published' = <<>>
        /\ outcome' = IF fires /\ current_surface \notin DOMAIN surface_data
                      THEN "KeyError" ELSE "imu"
        /\ UNCHANGED <<registry, bumpiness, flags, command, pid, odometry, ratchets,
                       surface_frame>>

\* line 257: the write to the entry of the surface that is active now
imu_257 ==
    /\ imu_frame # <<>>
    /\ IF current_surface \in DOMAIN surface_data
       THEN /\ surface_data' = [surface_data EXCEPT ![current_surface].max_x_vel =
                                   RatchetedMax(imu_frame.current_max)]
            /\ ratchets' = ratchets + 1
            /\ outcome' = "ratchet"
       ELSE /\ outcome' = "KeyError"
            /\ UNCHANGED <<surface_data, ratchets>>
    /\ imu_frame' = <<>>
    /\ published' = <<>>
    /\ UNCHANGED <<current_surface, previous_surface, bumpiness, flags, accels, command, pid,
                   odometry, surface_frame>>

(***************************************************************************)
(* The node: rospy delivers the messages of the five topics; here one      *)
(* handler runs to completion before the next starts.  The environment     *)
(* keeps its clocks monotone and shakes the robot only until MaxRatchets   *)
(* windows have reduced a speed limit.                                     *)
(***************************************************************************)
OnSurface(ids) == \E id \in ids : surface_callback(id)
OnBumpiness(values) == \E value \in values : bumpiness_callback(value)
OnOdometry(vels, stamps, poss) ==
    \E vel \in vels, stamp \in stamps, pos \in poss :
        /\ stamp >= previous_odometry_reading_time
        /\ odometry_callback(vel, stamp, pos)
OnJoystick(buttons, axes, stamps) ==
    \E button \in buttons, axis \in axes, stamp \in stamps :
        /\ stamp >= previous_stamp
        /\ joystick_callback(button, axis, stamp)
OnImu(zs) ==
    \E z \in zs :
        /\ z # 0 => ratchets < MaxRatchets
        /\ imu_callback(z)

(***************************************************************************)
(* Inputs.  Each specification below runs all five handlers; they differ   *)
(* in which part of the environment varies.                                *)
(***************************************************************************)
SurfaceIds    == {UnknownSurface, 1, 2}
Roughness     == {0, 1, 2}          \* 0.0, 0.1, 0.2
Buttons       == {0, 1}             \* data.buttons[9]
Axes          == {-1000, 0, 1000}   \* data.axes[1]: full forward, centre, full reverse
JoyStamps     == {0, 1, 2, 10}      \* seconds; 10 follows a pause of the operator
OdoStamps     == {0, 1}
OdoVelocity   == {0, 1000}
Positions     == {0, 300, 750}
ZSamples      == {0, 300}           \* a calm sample and a jolt of 3 m/s^2

\* Spec: every sequence of surface ids and of vibration windows, under a plain
\* forward drive on terrain of steady roughness.
Next ==
    \/ OnSurface(SurfaceIds)
    \/ OnBumpiness({1})
    \/ OnOdometry({0}, OdoStamps, {0})
    \/ OnJoystick(Buttons, {-1000}, {0, 1, 2})
    \/ OnImu(ZSamples)

Spec == Init /\ [][Next]_vars

\* SpecCommand: every joystick and odometry input, on unclassified terrain of
\* steady roughness.
NextCommand ==
    \/ OnSurface({UnknownSurface})
    \/ OnBumpiness({1})
    \/ OnOdometry(OdoVelocity, OdoStamps, {0})
    \/ OnJoystick(Buttons, Axes, JoyStamps)
    \/ OnImu(ZSamples)

SpecCommand == Init /\ [][NextCommand]_vars

\* SpecAnticipation: every sequence of roughness statistics and positions, under a
\* plain forward drive on unclassified terrain.
NextAnticipation ==
    \/ OnSurface({UnknownSurface})
    \/ OnBumpiness(Roughness)
    \/ OnOdometry({0}, OdoStamps, Positions)
    \/ OnJoystick(Buttons, {-1000}, {0, 1, 2})
    \/ OnImu(ZSamples)

SpecAnticipation == Init /\ [][NextAnticipation]_vars

\* SpecThreads: the callbacks on their threads, under every sequence of surface
\* ids and of vibration windows and a plain forward drive.
SurfaceThread == (\E id \in SurfaceIds : surface_84(id)) \/ surface_85 \/ surface_88 \/ surface_96
ImuThread ==
    \/ \E z \in ZSamples :
          /\ z # 0 => ratchets < MaxRatchets
          /\ imu_256(z)
    \/ imu_257

NextThreads ==
    \/ SurfaceThread
    \/ ImuThread
    \/ OnBumpiness({1})
    \/ OnOdometry({0}, OdoStamps, {0})
    \/ OnJoystick(Buttons, {-1000}, {0, 1, 2})

SpecThreads == Init /\ [][NextThreads]_vars

(***************************************************************************)
(* Properties of the surface registry, checked under Spec.                 *)
(***************************************************************************)

\* C3 Profile promotion: when surface_callback receives an id without an entry
\* while the active surface is -1, the new entry equals the -1 entry as it was
\* just before the call, and the -1 entry equals the defaults after it.
C3_ProfilePromotion ==
    [][\A id \in SurfaceIds :
          (/\ surface_callback(id)
           /\ id \notin DOMAIN surface_data
           /\ current_surface = UnknownSurface)
          => /\ surface_data'[id] = surface_data[UnknownSurface]
             /\ surface_data'[UnknownSurface] = default_dict]_vars

\* a promotion has just stored a profile that vibration had reduced
C3_Witness ==
    /\ outcome = "promoted"
    /\ surface_data[current_surface].max_x_vel < DefaultMaxXVel
    /\ surface_data[current_surface].max_accel = DefaultMaxAccel

\* C4 Ratchet monotonicity: no step removes the entry of an id other than -1 or
\* raises its max_x_vel.
C4_RatchetMonotone ==
    [][\A id \in DOMAIN surface_data \ {UnknownSurface} :
          /\ id \in DOMAIN surface_data'
          /\ surface_data'[id].max_x_vel <= surface_data[id].max_x_vel]_vars

\* a vibration window has just reduced an entry that had been reduced before,
\* on a classified surface
C4_Witness ==
    /\ outcome = "ratchet"
    /\ current_surface # UnknownSurface
    /\ surface_data[current_surface].max_x_vel < DefaultMaxXVel - RatchetStep

\* C6 Active surface always has a profile: current_surface and -1 are keys of
\* surface_data in every state.
C6_ActiveHasProfile ==
    /\ current_surface \in DOMAIN surface_data
    /\ UnknownSurface \in DOMAIN surface_data

\* an id first met on classified terrain is active, and joystick_callback has
\* just looked its profile up
C6_Witness ==
    /\ outcome = "tick"
    /\ current_surface # UnknownSurface
    /\ previous_surface \notin {UnknownSurface, current_surface}

\* C10 Scratch buffer never carries stale learning: while the active surface is
\* not -1, the -1 entry holds the defaults.
C10_ScratchIsDefault ==
    current_surface # UnknownSurface => surface_data[UnknownSurface] = default_dict

\* the robot has just entered a surface it knew, with a reduced limit, from
\* unclassified terrain
C10_Witness ==
    /\ outcome = "known"
    /\ current_surface # UnknownSurface
    /\ previous_surface = UnknownSurface
    /\ surface_data[current_surface].max_x_vel < DefaultMaxXVel

(***************************************************************************)
(* Properties of the command shaper, checked under SpecCommand.            *)
(***************************************************************************)

\* C1 Acceleration clamp: on every tick of joystick_callback that is not a hold
\* (deadman active, dt # 0, previous_stamp # 0) the published command v
\* satisfies |v - previous_x_velocity| / dt <= max_accel of the active profile,
\* previous_x_velocity being the value before the tick.
C1_AccelerationClamp ==
    [][\A axis \in Axes, stamp \in JoyStamps :
          (joystick_callback(1, axis, stamp) /\ outcome' = "tick")
          => Abs(published'[1] - previous_x_velocity)
                <= surface_data[current_surface].max_accel * Abs(stamp - previous_stamp)]_vars

\* C2 Hold on zero dt: a deadman-active sample that carries the stamp of the
\* deadman-active sample handled just before it publishes exactly
\* previous_x_velocity.
C2_HoldOnZeroDt ==
    [][\A axis \in Axes :
          (/\ outcome \in {"hold", "tick"}
           /\ joystick_callback(1, axis, previous_stamp))
          => published' = <<previous_x_velocity>>]_vars

\* C8 Deadman no-op: a joystick sample with buttons[9] = 0 publishes nothing and
\* changes no variable of the controller.
C8_DeadmanNoOp ==
    [][\A axis \in Axes, stamp \in JoyStamps :
          joystick_callback(0, axis, stamp)
          => /\ published' = <<>>
             /\ UNCHANGED <<registry, bumpiness, flags, accels, command, pid, odometry>>]_vars

\* the deadman was released while the robot was being driven: the sample found
\* a command history and stamps to leave alone
C8_Witness ==
    /\ outcome = "deadman"
    /\ previous_stamp # 0
    /\ previous_x_velocity # 0
    /\ i_error # 0

\* C9 Fatal anomaly guard: once |previous_x_velocity| > 2.0, a deadman-active
\* joystick sample publishes nothing and changes no command, PID or stamp
\* variable, and the condition persists through every later step, so that no
\* later sample publishes either.
C9_FatalGuard ==
    [][FatalGuard =>
          /\ FatalGuard'
          /\ published' = <<>>
          /\ UNCHANGED <<command, pid>>
          /\ \A axis \in Axes, stamp \in JoyStamps :
                joystick_callback(1, axis, stamp) => outcome' = "AttributeError"]_vars

\* a deadman-active sample has just met a previous command above 2.0
C9_Witness ==
    /\ outcome = "AttributeError"
    /\ Abs(previous_x_velocity) > FatalVelocity
    /\ published = <<>>

(***************************************************************************)
(* Properties of the anticipation tracker, checked under SpecAnticipation. *)
(***************************************************************************)

\* C5 Anticipation window closes: while upcoming_bumpiness is latched, an
\* odometry sample clears it if and only if its position is at least 0.45 from
\* the position of the first odometry sample since the latch -- wherever the
\* robot is, and whether or not surface_transition had opened a window before.
C5_WindowClosesAtLookAhead ==
    [][\A vel \in OdoVelocity, stamp \in OdoStamps, pos \in Positions :
          (odometry_callback(vel, stamp, pos) /\ upcoming_bumpiness)
          => (~upcoming_bumpiness' <=> Abs(pos - LatchPoint(pos)) >= LookAheadDistance)]_vars

(***************************************************************************)
(* Properties of the handlers on their threads, checked under SpecThreads. *)
(***************************************************************************)

\* C7 No torn reads: with the callbacks interleaving, joystick_callback and
\* imu_callback never look up a current_surface that has no entry yet, and
\* imu_callback never writes a max_x_vel computed from the entry of one surface
\* into the entry of another.
C7_NoTornRead ==
    [][/\ outcome' # "KeyError"
       /\ imu_257 => current_surface = imu_frame.surface]_vars

(***************************************************************************)
(* Properties of the profiles under vibration, checked under Spec.         *)
(***************************************************************************)

\* C11 Profile well-formedness: every profile of the registry has
\* max_x_vel > 0 and max_accel > 0, in every reachable state.
C11_ProfilesPositive ==
    \A id \in DOMAIN surface_data :
        /\ surface_data[id].max_x_vel > 0
        /\ surface_data[id].max_accel > 0

(***************************************************************************)
(* Properties of vibration and anticipation together, checked under        *)
(* SpecAnticipation.                                                       *)
(***************************************************************************)

\* C12 Vibration ratchet gating: an IMU sample changes the registry only if it
\* completes a window whose standard deviation exceeds 0.45 while
\* |previous_x_velocity| > |older_x_velocity| and neither upcoming_bumpiness nor
\* surface_transition is latched; it then sets only the active surface's
\* max_x_vel, to min(|previous_x_velocity|, current max) - 0.15; otherwise
\* every profile is unchanged.
C12_RatchetGate ==
    [][\A z \in ZSamples :
          imu_callback(z) =>
             LET w == accels (+) SetToBag({z})
                 fires == /\ BagCardinality(w) >= WindowLen
                          /\ StdExceeds(w, VibrationThreshold)
                          /\ Abs(previous_x_velocity) > Abs(older_x_velocity)
                          /\ ~upcoming_bumpiness
                          /\ ~surface_transition
             IN  surface_data' =
                    IF fires
                    THEN [surface_data EXCEPT ![current_surface].max_x_vel =
                             Min(Abs(previous_x_velocity), @) - RatchetStep]
                    ELSE surface_data]_vars

\* C13 Anticipation override asymmetry: on a tick the target handed to the PID
\* (p_error' + current_x_vel) is the acceleration-limited step from
\* previous_x_velocity toward min(max_x_vel, m) * direction, where m is the
\* requested magnitude capped at 0.2 exactly when upcoming_bumpiness is latched;
\* the published command is that target plus the PID trim.  surface_transition
\* takes no part in either: states that differ only in it publish the same
\* command for the same sample.
C13_OverrideAsymmetry ==
    [][\A axis \in Axes, stamp \in JoyStamps :
          (joystick_callback(1, axis, stamp) /\ outcome' = "tick") =>
             LET request == Abs(axis * AxisGain)
                 m       == IF upcoming_bumpiness THEN Min(request, BumpySlowVelocity) ELSE request
                 goal    == Min(surface_data[current_surface].max_x_vel, m) * InputDirection(axis)
                 step    == surface_data[current_surface].max_accel * Abs(stamp - previous_stamp)
                 target  == p_error' + current_x_vel
             IN  /\ target = IF Abs(goal - previous_x_velocity) > step
                             THEN previous_x_velocity
                                     + (IF goal < previous_x_velocity THEN -step ELSE step)
                             ELSE goal
                 /\ published' = <<target + Quot((KdDen \div KiDen) * i_error' + d_error', KdDen)>>]_vars

\* a tick has just published more than 0.2 while only surface_transition was
\* latched
C13_Witness ==
    /\ outcome = "tick"
    /\ surface_transition
    /\ ~upcoming_bumpiness
    /\ published # <<>>
    /\ published[1] > BumpySlowVelocity

(***************************************************************************)
(* Further properties of the command shaper, checked under SpecCommand.    *)
(***************************************************************************)

\* C14 Hold tick frame: a deadman-active joystick sample with dt = 0 or
\* previous_stamp = 0 changes no variable other than previous_stamp (and the
\* message published): previous_x_velocity, older_x_velocity, p_error, i_error,
\* d_error and previous_error keep their values, and so does everything the
\* next IMU window reads; when the sample is handled as a hold, previous_stamp
\* becomes its stamp.
C14_HoldFrame ==
    [][\A axis \in Axes, stamp \in JoyStamps :
          (/\ joystick_callback(1, axis, stamp)
           /\ (stamp - previous_stamp = 0 \/ previous_stamp = 0))
          => /\ UNCHANGED <<previous_x_velocity, older_x_velocity, pid>>
             /\ UNCHANGED <<registry, bumpiness, flags, accels, odometry>>
             /\ outcome' = "hold" => previous_stamp' = stamp]_vars

\* a hold has just followed a tick: there is a command history and an
\* integrated error to leave alone, and the stamp has moved
C14_Witness ==
    /\ outcome = "hold"
    /\ previous_x_velocity # older_x_velocity
    /\ i_error # 0
    /\ previous_stamp # 0

(***************************************************************************)
(* Further properties of the surface registry, checked under Spec.         *)
(***************************************************************************)

\* C15 Registry entries are created once and never reset: an entry of an id
\* other than -1 is never removed, and it changes only in a step of
\* imu_callback that reduces the limit of the surface then active; an entry is
\* added only by surface_callback, for the id it received and did not know.
C15_CreatedOnce ==
    [][/\ \A id \in DOMAIN surface_data \ {UnknownSurface} :
             /\ id \in DOMAIN surface_data'
             /\ surface_data'[id] # surface_data[id]
                   => (outcome' = "ratchet" /\ id = current_surface)
       /\ \A id \in DOMAIN surface_data' \ DOMAIN surface_data :
             /\ outcome' \in {"promoted", "created"}
             /\ id = current_surface']_vars

\* a classified surface whose limit vibration had reduced has just been entered
\* again, from another classified surface, and kept its reduced limit
C15_Witness ==
    /\ outcome = "known"
    /\ current_surface # UnknownSurface
    /\ previous_surface \notin {UnknownSurface, current_surface}
    /\ surface_data[current_surface].max_x_vel < DefaultMaxXVel

(***************************************************************************)
(* Further properties of the anticipation tracker, checked under           *)
(* SpecAnticipation.                                                       *)
(***************************************************************************)

\* C16 Window/flag consistency: in every state start_position # 0 only if
\* upcoming_bumpiness or surface_transition is latched; and a step of
\* odometry_callback that clears a flag or unsets start_position leaves both
\* flags false and start_position 0, while any other step of it leaves both
\* flags as they were.
C16_WindowFlagConsistency ==
    /\ [](start_position # 0 => (upcoming_bumpiness \/ surface_transition))
    /\ [][\A vel \in OdoVelocity, stamp \in OdoStamps, pos \in Positions :
             odometry_callback(vel, stamp, pos) =>
                IF \/ upcoming_bumpiness /\ ~upcoming_bumpiness'
                   \/ surface_transition /\ ~surface_transition'
                   \/ start_position # 0 /\ start_position' = 0
                THEN ~upcoming_bumpiness' /\ ~surface_transition' /\ start_position' = 0
                ELSE UNCHANGED <<upcoming_bumpiness, surface_transition>>]_vars

\* an odometry sample has just closed a window: a roughness history that
\* latched a flag is behind it, and flags and start position are all cleared
C16_Witness ==
    /\ outcome = "closed"
    /\ previous_bumpiness # 0
    /\ ~upcoming_bumpiness
    /\ ~surface_transition
    /\ start_position = 0

(***************************************************************************)
(* Bounds on the command, checked under SpecCommand.                       *)
(***************************************************************************)

\* C17 Bounded command: every command published by joystick_callback has
\* magnitude <= 2.0, and previous_x_velocity never exceeds 2.0 in magnitude, so
\* that the test of line 207 never succeeds.
C17_BoundedCommand ==
    /\ published # <<>> => Abs(published[1]) <= FatalVelocity
    /\ ~FatalGuard

(***************************************************************************)
(* Direction of the surface-limited request, checked under Spec.           *)
(***************************************************************************)

\* C18 Direction preservation: in every reachable state, for every axis value,
\* the surface-limited target of line 200 is zero or has the sign of
\* axis * -2.
C18_DirectionPreserved ==
    \A axis \in Axes :
        LET request == axis * AxisGain
            limited == SurfaceLimited(axis)
        IN  \/ limited = 0
            \/ limited > 0 /\ request > 0
            \/ limited < 0 /\ request < 0

(***************************************************************************)
(* Latching of the anticipation flags, checked under SpecAnticipation.     *)
(***************************************************************************)

\* C19 Exclusive latching per sample: one call of bumpiness_callback with a
\* non-negative value never latches both upcoming_bumpiness and
\* surface_transition, and latches neither when the previous roughness
\* (current_bumpiness before the call) is 0.
C19_ExclusiveLatching ==
    [][\A value \in Roughness :
          bumpiness_callback(value) =>
             /\ ~(/\ ~upcoming_bumpiness /\ upcoming_bumpiness'
                  /\ ~surface_transition /\ surface_transition')
             /\ current_bumpiness = 0 => UNCHANGED <<upcoming_bumpiness, surface_transition>>]_vars

\* a roughness sample has just latched the second flag while the first, latched
\* by an earlier sample, was still set
C19_Witness ==
    /\ outcome = "bumpiness"
    /\ upcoming_bumpiness
    /\ surface_transition
    /\ previous_bumpiness # 0

(***************************************************************************)
(* Repeated surface events, checked under Spec.                            *)
(***************************************************************************)

\* C20 Repeated surface event is a no-op on the registry: a call of
\* surface_callback with the id of the surface already active, -1 included,
\* leaves every profile of surface_data unchanged.
C20_RepeatedIdNoOp ==
    [][\A id \in SurfaceIds :
          (surface_callback(id) /\ id = current_surface)
          => surface_data' = surface_data]_vars

====
